---- MODULE Spec2Model ----
(***************************************************************************)
(* refinedc-copilot as state machines.                                     *)
(*                                                                         *)
(* Spec / FairSpec: the specs-loop command.  main copies the file into     *)
(* artifacts/, specAgent initialises the verifier project and builds a     *)
(* lazy fp-ts TaskEither, which it returns, together with an AgentState,   *)
(* before any of it has run; the command then runs the task.  The model    *)
(* follows that order: the action specAgent is the synchronous             *)
(* construction, the later actions are the steps of the task.              *)
(* CopySpec: main's copyToArtifacts on every short path.                   *)
(* ErrSpec: the classification of a failing check's stderr, the goals      *)
(* extracted from it and the plan made of it, on character-level texts.    *)
(* LemmaSpec: the lemma commands (lemmas-loop and refinedC-checker).       *)
(* CoqSpec: extractAndRunLemmas on a batch of lemma statements and the run *)
(* of its outcomes (temporary file, coqc, clean-up).                       *)
(* PatchSpec: findAnnotationPoints and both insertAnnotations of the       *)
(* repository on C texts, character by character.                          *)
(* McpSpec: the MCP client classes, their interleaved method calls and     *)
(* the server processes they spawn.                                        *)
(*                                                                         *)
(* Abstractions.  A file text is the number of writes that produced it and *)
(* the annotations its last patch inserted.  A completion reply is the     *)
(* list of tagged items it holds; the text of an item is identified by the *)
(* pass, the point and the item's index.  In the loops a verifier stderr   *)
(* is whether it holds "Cannot solve side condition", how many goals it    *)
(* lists, and the verifier run that printed it (the traversal, and whether *)
(* it was the re-check before the pass or the check after it); stderrOf    *)
(* gives this summary of a text.  A path is the list of its components.    *)
(* The successes of the lemma loop are kept by their number.               *)
(***************************************************************************)
EXTENDS Integers, Sequences, FiniteSets, TLC

\* ---------------------------------------------------------------- bounds
MaxK == 3        \* iteration budgets 1..MaxK (createInitialAgentState sets 20)
MaxPoints == 2   \* functions and loops in the source file

MaxDepth == 3    \* components of a path given to copyToArtifacts
MaxParts == 3    \* pieces of a stderr text
MaxGoals == 2    \* goals in a verifier's stderr given to the lemma commands

\* guard on the recursion depth (never reached while shouldContinue holds)
TraversalCap == MaxK + 2

VARIABLES
    pc,            \* position of the run
    filename,      \* main's parameter: the path given to the command
    artifactsFilename, \* main's local: the path copyToArtifacts returned
    fsops,         \* the file-system calls copyToArtifacts made, in order
    writes,        \* the paths the run has written to
    marker,        \* whether rc-project.toml exists in the project directory
    initRun,       \* the `refinedc init` subprocess of the run
    parts,         \* the pieces a verifier's stderr is made of
    checkStderr,   \* the stderr of a failing `refinedc check`, as text
    checkError,    \* the RefinedCError built from it
    plan,          \* the VerificationPlan processRefinedCError returned
    goalTexts,     \* the goals extractGoals returned for the plan
    script,        \* the lemma command that is running
    fuel,          \* loop's parameter `fuel`
    successes,     \* loop's parameter `successes`, by its length
    lemmaPromises, \* generateLemmas' per-goal promises of this round
    lemmaArrival,  \* the order in which they settled
    lemmaStatements, \* what generateLemmas returned in this round
    coqOutcomes,   \* what extractAndRunLemmas returned, then each one's result
    returned,      \* what main returned
    lemmaExit,     \* status of the lemma command's process
    rounds,        \* calls of loop made so far (one lemma round each)
    passed,        \* outcomes that were run and gave a Right, over all rounds
    lemmaTexts,  \* extractAndRunLemmas' parameter: the lemma statements
    tasks,         \* the outcomes extractAndRunLemmas returned, and their runs
    tmpdir,        \* the files in os.tmpdir()
    now,           \* Date.now()
    source,        \* the C source given to the locator and the patcher
    located,       \* the points findAnnotationPoints returned for it
    patcher,       \* which insertAnnotations is applied
    supplied,      \* insertAnnotations' parameter `annotations`
    patchedOnce,   \* insertAnnotations(code, annotations)
    patchedTwice,  \* insertAnnotations applied to its own output
    clientClass,   \* the class of the MCP client object
    serverType,    \* its field serverType (McpClientWrapper)
    mcpClient,     \* its field client
    childProcess,  \* its field childProcess: the process it holds, by number
    isRunning,     \* its field isRunning
    spawned,       \* the server processes it spawned, each running or killed
    calls,         \* the invocations of its methods that are at an await
    invoked,       \* number of invocations made
    returnedFrom,  \* the invocation that has just returned, and its value
    state,         \* runLoop's parameter `state` (innermost call)
    finalState,    \* runLoop's local `finalState` (innermost call)
    firstRun,      \* runLoop's parameter `firstRun` (innermost call)
    handedBack,    \* the AgentState specAgent returned to run()
    error,         \* the error checkAndHandleError passed to continueProcessFile
    numPoints,     \* functions and loops of the C file
    file,          \* the workspace file (artifacts/ copy)
    code,          \* the text readFileAndFindPoints read
    points,        \* the points located in `code`
    parsed,        \* the text findAnnotationPoints was given for `points`
    promises,      \* the per-point promises of this pass
    arrival,       \* the order in which the promises settled
    annotationCompletion, \* the merged completion of this pass
    messages,      \* the local `messages` / `newMessages` of this pass
    annotatedCode, \* the patched text of this pass
    outcome,       \* the Either processTask.outcome produced in this traversal
    result,        \* what `await outcome()` gave to run()
    exitCode,      \* status of the specs-loop process
    traversals,    \* number of runLoop steps started
    trace,         \* the external steps of the current traversal, in order
    transcript     \* every message the completions produced, in merge order

\* what main and specAgent set up before the loop
setupVars == <<filename, artifactsFilename, fsops, marker, initRun>>

\* the variables of the error analysis
textVars == <<parts, checkStderr, checkError, plan, goalTexts>>

\* the variables of the lemma commands
lemmaVars == <<script, fuel, successes, lemmaPromises, lemmaArrival,
               lemmaStatements, coqOutcomes, returned, lemmaExit, rounds, passed>>

\* the variables of the lemma checker
coqVars == <<lemmaTexts, tasks, tmpdir, now>>

\* the variables of the locator and the patcher
patchVars == <<source, located, patcher, supplied, patchedOnce, patchedTwice>>

\* the variables of the MCP client
mcpVars == <<clientClass, serverType, mcpClient, childProcess, isRunning,
             spawned, calls, invoked, returnedFrom>>

\* what the specs-loop run leaves alone
elsewhere == <<textVars, lemmaVars, coqVars, patchVars, mcpVars>>

vars == <<pc, state, finalState, firstRun, handedBack, error, numPoints, file,
          code, points, parsed, promises, arrival, annotationCompletion, messages,
          annotatedCode, outcome, result, exitCode, traversals, trace,
          transcript, setupVars, writes, elsewhere>>

\* ----------------------------------------------------------------- values
NoRun == [traversal |-> 0, phase |-> ""]
NoStderr == [text |-> "", sideCondition |-> FALSE, goals |-> 0, run |-> NoRun]
NoError == [type |-> "None", stdout |-> "", stderr |-> NoStderr, exitcode |-> 0]

Right == [tag |-> "Right", left |-> NoError]
Left(e) == [tag |-> "Left", left |-> e]
Pending == [tag |-> "None", left |-> NoError]
Thrown == [tag |-> "Thrown", left |-> NoError]
isRight(e) == e.tag = "Right"

NoCompletion == [annotations |-> <<>>, messages |-> <<>>]
\* the text copied from sources/: revision 0, nothing patched in
SourceText == [rev |-> 0, patch |-> <<>>]

Range(s) == {s[i] : i \in 1..Len(s)}

\* ------------------------------------------------------------------ paths
\* A path is the sequence of its components: <<"sources", "p", "f.c">> is
\* "sources/p/f.c", and <<"sources">> is "sources", which holds no "/".
NoPath == <<>>

\* the file the specs-loop command is run on
SourceFile == <<"sources", "proj", "src", "f.c">>

\* a prefix test that does not ask for the "/"
startsWithSourcesWord(path) == Len(path) >= 1 /\ path[1] = "sources"

\* filename.startsWith("sources/")
startsWithSources(path) == Len(path) >= 2 /\ path[1] = "sources"

\* filename.replace(/^sources\//, "artifacts/")
replaceSources(path) ==
    IF startsWithSources(path) THEN <<"artifacts">> \o Tail(path) ELSE path

\* path.dirname
dirname(path) == IF Len(path) <= 1 THEN <<".">> ELSE SubSeq(path, 1, Len(path) - 1)

\* what the two synchronous fs calls of copyToArtifacts can do
FsResults == {"ok", "mkdirSync throws", "copyFileSync throws"}

\* a copy that leaves the file where it is
copyInPlace(path, fsResult) ==
    [threw |-> FALSE, value |-> path,
     fsops |-> <<[op |-> "copyFileSync", from |-> path, to |-> path]>>]

\* copyToArtifacts(filename): whether it threw, the path it returned, and the
\* fs calls it made
copyToArtifacts(path, fsResult) ==
    IF ~startsWithSources(path)
    THEN [threw |-> TRUE, value |-> NoPath, fsops |-> <<>>]
    ELSE LET artifacts == replaceSources(path)
             mkdirSync == [op |-> "mkdirSync", from |-> NoPath, to |-> dirname(artifacts)]
             copyFileSync == [op |-> "copyFileSync", from |-> path, to |-> artifacts]
         IN IF fsResult = "mkdirSync throws"
            THEN [threw |-> TRUE, value |-> NoPath, fsops |-> <<mkdirSync>>]
            ELSE IF fsResult = "copyFileSync throws"
            THEN [threw |-> TRUE, value |-> NoPath, fsops |-> <<mkdirSync, copyFileSync>>]
            ELSE [threw |-> FALSE, value |-> artifacts,
                  fsops |-> <<mkdirSync, copyFileSync>>]

\* the paths a list of fs calls wrote files to
written(ops) == {ops[i].to : i \in {j \in 1..Len(ops) : ops[j].op = "copyFileSync"}}

\* ------------------------------------------------------- runRefinedCInit
\* The repository holds two runRefinedCInit.  Each is given here by whether
\* running it starts `refinedc init`, given whether rc-project.toml exists.
InitVersions == {"lib/spec/refinedc.ts", "legacy"}

\* an init that does not look at the marker
runRefinedCInitUnconditional(markerExists) == TRUE

\* legacy: fs.promises.access fails when the marker is absent, and the fold
\* then runs the init task
runRefinedCInitLegacy(markerExists) == ~markerExists

\* lib/spec/refinedc.ts: the fs.access callback returns the init task to its
\* caller (fs), which drops it: the task is never run
runRefinedCInit(markerExists) == FALSE

startsInit(version, markerExists) ==
    IF version = "legacy" THEN runRefinedCInitLegacy(markerExists)
    ELSE runRefinedCInit(markerExists)

\* ------------------------------------------------------------- AgentState
createInitialAgentState(filepath, k) ==
    [messages |-> <<>>, jobType |-> "EditSpec", currentFile |-> filepath,
     iterations |-> 0, maxIterations |-> k, completed |-> FALSE]

shouldContinueNoBudget(s) == ~s.completed

shouldContinue(s) == ~s.completed /\ s.iterations < s.maxIterations

updateState(s, newMessages, completed) ==
    [s EXCEPT !.messages = s.messages \o newMessages,
              !.iterations = s.iterations + 1,
              !.completed = completed]

\* ---------------------------------------------------------------- errors
errorToRefinedCError(message) ==
    [type |-> "FilesystemOrToolError", stdout |-> "Error",
     stderr |-> [text |-> message, sideCondition |-> FALSE, goals |-> 0, run |-> NoRun],
     exitcode |-> -1]

classifyRefinedCError(stderr) ==
    IF stderr.sideCondition THEN "NeedsLemmasOrIncorrectImplementation"
    ELSE "MalformedSpec"

extractGoals(stderr) == [i \in 1..stderr.goals |-> <<"goal", i>>]

\* a mapping that plans an edit of the specification for every error
processRefinedCErrorToEdit(rcError) == [type |-> "EditSpec", goals |-> <<>>]

processRefinedCError(rcError) ==
    IF rcError.type = "MalformedSpec"
    THEN [type |-> "EditSpec", goals |-> <<>>]
    ELSE IF rcError.type \in {"NeedsLemmasOrIncorrectImplementation", "UnfinishedProof"}
    THEN [type |-> "StateLemmas", goals |-> extractGoals(rcError.stderr)]
    ELSE [type |-> "EditSpec", goals |-> <<>>]

\* what a failing `refinedc check` can print: a malformed-spec message, or
\* an unsolved side condition with its goal
FailingStderrs(run) ==
    {[text |-> "refinedc", sideCondition |-> sc, goals |-> IF sc THEN 1 ELSE 0,
      run |-> run] : sc \in BOOLEAN}

\* ------------------------------------------------------ the stderr text
\* A text is the sequence of its characters.
LowerCaseLetters ==
    <<"a", "b", "c", "d", "e", "f", "g", "h", "i", "j", "k", "l", "m", "n",
      "o", "p", "q", "r", "s", "t", "u", "v", "w", "x", "y", "z">>

UpperCaseLetters ==
    <<"A", "B", "C", "D", "E", "F", "G", "H", "I", "J", "K", "L", "M", "N",
      "O", "P", "Q", "R", "S", "T", "U", "V", "W", "X", "Y", "Z">>

toLowerCaseChar(c) ==
    IF \E i \in 1..Len(UpperCaseLetters) : UpperCaseLetters[i] = c
    THEN LowerCaseLetters[CHOOSE i \in 1..Len(UpperCaseLetters) : UpperCaseLetters[i] = c]
    ELSE c

toLowerCase(text) == [i \in 1..Len(text) |-> toLowerCaseChar(text[i])]

\* the message classifyRefinedCError looks for
SideConditionMessage ==
    <<"C", "a", "n", "n", "o", "t", " ", "s", "o", "l", "v", "e", " ", "s",
      "i", "d", "e", " ", "c", "o", "n", "d", "i", "t", "i", "o", "n">>

\* the opening and the closing of the pattern /Goal:\n([\s\S]*?)\n\n/g
GoalMarker ==
    <<"G", "o", "a", "l", ":", "\n">>

BlankLine ==
    <<"\n", "\n">>

\* whether `needle` occurs in `text` at index i
occursAt(text, i, needle) ==
    /\ i >= 1
    /\ i + Len(needle) - 1 <= Len(text)
    /\ \A k \in 1..Len(needle) : text[i + k - 1] = needle[k]

\* a test that ignores letter case
includesIgnoringCase(text, needle) ==
    \E i \in 1..Len(text) : occursAt(toLowerCase(text), i, toLowerCase(needle))

\* String.prototype.includes
includes(text, needle) == \E i \in 1..Len(text) : occursAt(text, i, needle)

\* a trim that leaves the text as it is
keepWhiteSpace(text) == text

\* String.prototype.trim
WhiteSpace == {" ", "\n", "\t", "\r"}

trim(text) ==
    LET inked == {i \in 1..Len(text) : text[i] \notin WhiteSpace}
    IN IF inked = {} THEN <<>>
       ELSE SubSeq(text, CHOOSE i \in inked : \A j \in inked : i <= j,
                         CHOOSE i \in inked : \A j \in inked : i >= j)

\* stderr.matchAll(/Goal:\n([\s\S]*?)\n\n/g): the captures match[1] of the
\* successive matches, each searched from the end of the one before; a match
\* begins at the first marker that a blank line follows and ends with the
\* nearest such blank line
RECURSIVE goalMatches(_, _)
goalMatches(text, lastIndex) ==
    LET closings(i) == {j \in (i + Len(GoalMarker))..Len(text) :
                           occursAt(text, j, BlankLine)}
        openings == {i \in lastIndex..Len(text) :
                        occursAt(text, i, GoalMarker) /\ closings(i) # {}}
    IN IF openings = {} THEN <<>>
       ELSE LET i == CHOOSE o \in openings : \A x \in openings : o <= x
                j == CHOOSE c \in closings(i) : \A x \in closings(i) : c <= x
            IN <<SubSeq(text, i + Len(GoalMarker), j - 1)>>
               \o goalMatches(text, j + Len(BlankLine))

\* the loop of extractGoals: the trimmed captures, in the order of the
\* matches, an empty capture being skipped
RECURSIVE allGoalLines(_)
allGoalLines(matches) ==
    IF matches = <<>> THEN <<>>
    ELSE (IF Head(matches) # <<>> THEN <<trim(Head(matches))>> ELSE <<>>)
         \o allGoalLines(Tail(matches))

\* extractGoals on a text
extractGoalTexts(text) == allGoalLines(goalMatches(text, 1))

\* what the model of the loops keeps of a stderr text
stderrOf(text, run) ==
    [text |-> "refinedc", sideCondition |-> includes(text, SideConditionMessage),
     goals |-> Len(extractGoalTexts(text)), run |-> run]

\* ------------------------------------------------------ insertion points
\* the located points, sorted by descending startIndex; a point is named by
\* the rank of its startIndex
findAnnotationPoints(n) == [i \in 1..n |-> n + 1 - i]

\* the patched text: a new revision of `text` holding `annotations`
insertAnnotations(text, annotations) ==
    [rev |-> text.rev + 1, patch |-> annotations]

\* ------------------------------------------------------------ completion
generateAnnotationInitPrompt(point, pass) ==
    [role |-> "user", pass |-> pass, point |-> point, about |-> NoRun]

\* a prompt that keeps quoting the output of the run's first check
generateAnnotationPromptOfFirstCheck(point, pass, rcError) ==
    [role |-> "user", pass |-> pass, point |-> point,
     about |-> [traversal |-> 1, phase |-> "check"]]

generateAnnotationContinuePrompt(point, pass, rcError) ==
    [role |-> "user", pass |-> pass, point |-> point, about |-> rcError.stderr.run]

\* what the completion backend can answer: the call fails, or the reply
\* holds no tagged item, one, or several
Replies == {[ok |-> FALSE, items |-> 0]} \cup {[ok |-> TRUE, items |-> n] : n \in 0..2}

messagesFrom(response, point, pass) ==
    <<[role |-> "assistant", pass |-> pass, point |-> point, about |-> NoRun]>>

\* parsed.root.annotation is undefined without an item (reading .map of it
\* throws), one object for one item, an array for several
parseAnnotations(response, point, pass) ==
    IF response.items = 0
    THEN [threw |-> TRUE, annotations |-> <<>>]
    ELSE [threw |-> FALSE,
          annotations |-> [k \in 1..response.items |->
                              [point |-> point, content |-> <<pass, point, k>>]]]

\* the promise generateAnnotationsForPoint returns, once settled
generateAnnotationsForPoint(point, history, response, pass) ==
    IF ~response.ok \/ parseAnnotations(response, point, pass).threw
    THEN [status |-> "rejected", history |-> history, value |-> NoCompletion]
    ELSE [status |-> "fulfilled", history |-> history,
          value |-> [annotations |-> parseAnnotations(response, point, pass).annotations,
                     messages |-> messagesFrom(response, point, pass)]]

initGenerateAnnotationsForPoint(point, pass) ==
    [status |-> "pending", value |-> NoCompletion,
     history |-> <<generateAnnotationInitPrompt(point, pass)>>]

continueGenerateAnnotationsForPoint(point, pass, rcError, messagesSoFar) ==
    [status |-> "pending", value |-> NoCompletion,
     history |-> messagesSoFar \o <<generateAnnotationContinuePrompt(point, pass, rcError)>>]

RECURSIVE flatMap(_, _)
flatMap(seqs, field) ==
    IF seqs = <<>> THEN <<>>
    ELSE (IF field = "annotations" THEN Head(seqs).annotations ELSE Head(seqs).messages)
         \o flatMap(Tail(seqs), field)

flattenAnnotationCompletions(annotationCompletions) ==
    [annotations |-> flatMap(annotationCompletions, "annotations"),
     messages |-> flatMap(annotationCompletions, "messages")]

\* Promise.all on fulfilled promises: their values in arrival order
PromiseAllInArrivalOrder(ps, settled) == [i \in 1..Len(ps) |-> ps[settled[i]].value]

\* Promise.all on fulfilled promises: their values in the order of the
\* promises, whatever the order `settled` they settled in
PromiseAll(ps, settled) == [i \in 1..Len(ps) |-> ps[i].value]

\* ------------------------------------------------------------------ Init
Budgets == 1..MaxK

\* no verifier error is under analysis
NoPlan == [type |-> "None", goals |-> <<>>]

TextUnused ==
    /\ parts = <<>>
    /\ checkStderr = <<>>
    /\ checkError = NoError
    /\ plan = NoPlan
    /\ goalTexts = <<>>

\* no lemma command is running
LemmaUnused ==
    /\ script = "none"
    /\ fuel = 0
    /\ successes = 0
    /\ lemmaPromises = <<>>
    /\ lemmaArrival = <<>>
    /\ lemmaStatements = <<>>
    /\ coqOutcomes = <<>>
    /\ returned = "nothing"
    /\ lemmaExit = -1
    /\ rounds = 0
    /\ passed = 0

\* no batch of lemma statements is being checked
CoqUnused ==
    /\ lemmaTexts = <<>>
    /\ tasks = <<>>
    /\ tmpdir = {}
    /\ now = 0

\* no MCP client has been made
McpUnused ==
    /\ clientClass = "none"
    /\ serverType = "none"
    /\ mcpClient = "null"
    /\ childProcess = 0
    /\ isRunning = FALSE
    /\ spawned = <<>>
    /\ calls = <<>>
    /\ invoked = 0
    /\ returnedFrom = [method |-> "none", value |-> "none"]

\* no text is being patched
PatchUnused ==
    /\ source = "none"
    /\ located = <<>>
    /\ patcher = "none"
    /\ supplied = <<>>
    /\ patchedOnce = <<>>
    /\ patchedTwice = <<>>

\* the state in which main(filename) is called, for a filename among `names`
Started(names) ==
    /\ pc = "main"
    /\ TextUnused
    /\ LemmaUnused
    /\ CoqUnused
    /\ PatchUnused
    /\ McpUnused
    /\ filename \in names
    /\ artifactsFilename = NoPath
    /\ fsops = <<>>
    /\ writes = {}
    /\ marker \in BOOLEAN
    /\ initRun = "none"
    /\ \E k \in Budgets : state = createInitialAgentState(NoPath, k)
    /\ finalState = state
    /\ handedBack = state
    /\ firstRun = TRUE
    /\ error = NoError
    /\ numPoints \in 1..MaxPoints
    /\ file = SourceText
    /\ code = SourceText
    /\ points = <<>>
    /\ parsed = SourceText
    /\ promises = <<>>
    /\ arrival = <<>>
    /\ annotationCompletion = NoCompletion
    /\ messages = <<>>
    /\ annotatedCode = SourceText
    /\ outcome = Pending
    /\ result = Pending
    /\ exitCode = -1
    /\ traversals = 0
    /\ trace = <<>>
    /\ transcript = <<>>

Init == Started({SourceFile})

\* --------------------------------------------------------------- runLoop
\* "Otherwise return the error": the result of a failed traversal when the
\* budget is spent
reportSuccess(e) == Right

returnTheError(e) == Left(e)

\* The synchronous part of runLoop(s, first): the early return, or the
\* construction of processTask (initProcessFile / checkAndHandleError), whose
\* state is updateState(s, messages) with the local `messages` still empty.
runLoop(s, first) ==
    IF ~shouldContinue(s)
    THEN /\ finalState' = s
         /\ result' = Right
         /\ pc' = "done"
         /\ UNCHANGED <<state, firstRun, messages, outcome, traversals, trace>>
    ELSE /\ traversals < TraversalCap
         /\ state' = s
         /\ firstRun' = first
         /\ messages' = <<>>
         /\ finalState' = updateState(s, messages', FALSE)
         /\ outcome' = Pending
         /\ traversals' = traversals + 1
         /\ trace' = <<>>
         /\ pc' = IF first THEN "read" ELSE "recheck"
         /\ UNCHANGED result

\* the locals of one annotation pass
passVars == <<code, points, parsed, promises, arrival, annotationCompletion,
              annotatedCode>>

\* the locals of a pass once the pass is over
passEnds ==
    /\ code' = SourceText
    /\ points' = <<>>
    /\ parsed' = SourceText
    /\ promises' = <<>>
    /\ arrival' = <<>>
    /\ annotationCompletion' = NoCompletion
    /\ annotatedCode' = SourceText

\* main(filename) up to its call of run(): the copy into artifacts/; an
\* exception leaves main, and the command, as a rejected promise
mainCopyToArtifacts ==
    /\ pc = "main"
    /\ \E fsResult \in FsResults :
         LET copied == copyToArtifacts(filename, fsResult)
         IN /\ fsops' = copied.fsops
            /\ writes' = writes \cup written(copied.fsops)
            /\ artifactsFilename' = copied.value
            /\ IF copied.threw
               THEN /\ result' = Thrown
                    /\ pc' = "done"
               ELSE /\ pc' = "init"
                    /\ UNCHANGED result
    /\ UNCHANGED <<state, finalState, firstRun, handedBack, error, numPoints, file,
                   passVars, messages, outcome, exitCode, traversals, trace,
                   transcript, filename, marker, initRun, elsewhere>>

\* specAgent(filePath) up to its await: createInitialAgentState, and
\* runRefinedCInit(filePath)() in either version
specAgentInit ==
    /\ pc = "init"
    /\ state' = createInitialAgentState(artifactsFilename, state.maxIterations)
    /\ finalState' = state'
    /\ handedBack' = state'
    /\ \E version \in InitVersions :
         IF startsInit(version, marker)
         THEN /\ initRun' = "running"
              /\ pc' = "initWait"
         ELSE /\ pc' = "specAgent"
              /\ UNCHANGED initRun
    /\ UNCHANGED <<firstRun, error, numPoints, file, passVars, messages, outcome,
                   result, exitCode, traversals, trace, transcript, filename,
                   artifactsFilename, fsops, marker, writes, elsewhere>>

\* `refinedc init` exits; the awaited task resolves to none either way
refinedcInitExits ==
    /\ pc = "initWait"
    /\ \E ok \in BOOLEAN :
         /\ initRun' = IF ok THEN "done" ELSE "failed"
         /\ marker' = (marker \/ ok)
    /\ pc' = "specAgent"
    /\ UNCHANGED <<state, finalState, firstRun, handedBack, error, numPoints, file,
                   passVars, messages, outcome, result, exitCode, traversals,
                   trace, transcript, filename, artifactsFilename, fsops, writes,
                   elsewhere>>

\* the rest of specAgent(filePath), and run() starting the task it returned
specAgent ==
    /\ pc = "specAgent"
    /\ runLoop(state, TRUE)
    /\ handedBack' = finalState'
    /\ UNCHANGED <<error, numPoints, file, passVars, exitCode, transcript>>
    /\ UNCHANGED <<setupVars, writes, elsewhere>>

\* points kept from the parse of the text the run started with
codeAndPointsOfFirstParse(text, n) ==
    [code |-> text, points |-> findAnnotationPoints(n), parsed |-> SourceText]

\* what readFileAndFindPoints resolves to: the text read, the points
\* findAnnotationPoints(code) found, and (for the record) the text it parsed
codeAndPoints(text, n) ==
    [code |-> text, points |-> findAnnotationPoints(n), parsed |-> text]

\* readFileAndFindPoints, and the fan-out of the per-point completions
readFileAndFindPoints ==
    /\ pc = "read"
    /\ \E r \in {"ok", "Failed to read file", "Failed to find annotation points"} :
         IF r = "ok"
         THEN /\ code' = codeAndPoints(file, numPoints).code
              /\ points' = codeAndPoints(file, numPoints).points
              /\ parsed' = codeAndPoints(file, numPoints).parsed
              /\ promises' = [i \in 1..Len(points') |->
                    IF firstRun
                    THEN initGenerateAnnotationsForPoint(points'[i], traversals)
                    ELSE continueGenerateAnnotationsForPoint(points'[i], traversals,
                                                             error, state.messages)]
              /\ pc' = "synth"
              /\ UNCHANGED outcome
         ELSE /\ outcome' = Left(errorToRefinedCError(r))
              /\ pc' = "fold"
              /\ UNCHANGED <<code, points, parsed, promises>>
    /\ trace' = Append(trace, "read")
    /\ UNCHANGED <<state, finalState, firstRun, handedBack, error, numPoints, file,
                   arrival, annotationCompletion, messages, annotatedCode, result,
                   exitCode, traversals, transcript>>
    /\ UNCHANGED <<setupVars, writes, elsewhere>>

\* one completion call returns; a rejected promise rejects Promise.all and
\* with it the whole task, so `await outcome()` throws in run()
completionSettles(i) ==
    /\ pc = "synth"
    /\ promises[i].status = "pending"
    /\ \E response \in Replies :
         LET settled == generateAnnotationsForPoint(points[i], promises[i].history,
                                                    response, traversals)
         IN /\ promises' = [promises EXCEPT ![i] = settled]
            /\ IF settled.status = "rejected"
               THEN /\ result' = Thrown
                    /\ pc' = "done"
               ELSE UNCHANGED <<result, pc>>
    /\ arrival' = Append(arrival, i)
    /\ trace' = Append(trace, "complete")
    /\ UNCHANGED <<state, finalState, firstRun, handedBack, error, numPoints, file,
                   code, points, parsed, annotationCompletion, messages,
                   annotatedCode, outcome, exitCode, traversals, transcript>>
    /\ UNCHANGED <<setupVars, writes, elsewhere>>

\* a join that resolves with the first promise that is fulfilled
fulfilledAtFirst(ps) == \E i \in 1..Len(ps) : ps[i].status = "fulfilled"

\* Promise.all(promises) is fulfilled: every promise is
allFulfilled(ps) == \A i \in 1..Len(ps) : ps[i].status = "fulfilled"

\* the join: Promise.all(...).then(flattenAnnotationCompletions), then the
\* T.map callback that stores the messages and patches the text
joinAndPatch ==
    /\ pc = "synth"
    /\ allFulfilled(promises)
    /\ annotationCompletion' = flattenAnnotationCompletions(PromiseAll(promises, arrival))
    /\ messages' = annotationCompletion'.messages
    /\ annotatedCode' = insertAnnotations(code, annotationCompletion'.annotations)
    /\ transcript' = transcript \o annotationCompletion'.messages
    /\ trace' = Append(trace, "patch")
    /\ pc' = "write"
    /\ UNCHANGED <<state, finalState, firstRun, handedBack, error, numPoints, file,
                   code, points, parsed, promises, arrival, outcome, result,
                   exitCode, traversals>>
    /\ UNCHANGED <<setupVars, writes, elsewhere>>

writeCFile ==
    /\ pc = "write"
    /\ \E ok \in BOOLEAN :
         IF ok
         THEN /\ file' = annotatedCode
              /\ pc' = "check"
              /\ UNCHANGED outcome
         ELSE /\ outcome' = Left(errorToRefinedCError("Failed to write file"))
              /\ pc' = "fold"
              /\ UNCHANGED file
    /\ passEnds
    /\ trace' = Append(trace, "write")
    /\ UNCHANGED <<state, finalState, firstRun, handedBack, error, numPoints,
                   messages, result, exitCode, traversals, transcript>>
    /\ writes' = writes \cup {state.currentFile}
    /\ UNCHANGED <<setupVars, elsewhere>>

\* the outcome of one `refinedc check`
VerifierOutcomes(run) ==
    {Right} \cup
    {Left([type |-> classifyRefinedCError(se), stdout |-> "", stderr |-> se,
           exitcode |-> 1]) : se \in FailingStderrs(run)}

\* runRefinedCCheck at the end of initProcessFile / continueProcessFile
runRefinedCCheck ==
    /\ pc = "check"
    /\ \E o \in VerifierOutcomes([traversal |-> traversals, phase |-> "check"]) :
         outcome' = o
    /\ trace' = Append(trace, "check")
    /\ pc' = "fold"
    /\ UNCHANGED <<state, finalState, firstRun, handedBack, error, numPoints, file,
                   passVars, messages, result, exitCode, traversals, transcript>>
    /\ UNCHANGED <<setupVars, writes, elsewhere>>

\* checkAndHandleError: the re-check; on failure TE.orElse hands the error to
\* continueProcessFile (whose updated state is assigned to a local that
\* nothing reads afterwards)
checkAndHandleError ==
    /\ pc = "recheck"
    /\ \E o \in VerifierOutcomes([traversal |-> traversals, phase |-> "recheck"]) :
         IF isRight(o)
         THEN /\ outcome' = o
              /\ pc' = "fold"
              /\ UNCHANGED error
         ELSE /\ error' = o.left
              /\ pc' = "read"
              /\ UNCHANGED outcome
    /\ trace' = Append(trace, "check")
    /\ UNCHANGED <<state, finalState, firstRun, handedBack, numPoints, file,
                   passVars, messages, result, exitCode, traversals, transcript>>
    /\ UNCHANGED <<setupVars, writes, elsewhere>>

\* runLoop's TE.fold over processTask.outcome
fold ==
    /\ pc = "fold"
    /\ IF isRight(outcome)
       THEN /\ finalState' = updateState(finalState, <<>>, TRUE)
            /\ result' = Right
            /\ pc' = "done"
            /\ UNCHANGED <<state, firstRun, messages, outcome, traversals, trace>>
       ELSE IF shouldContinue(finalState)
            THEN runLoop(finalState, FALSE)
            ELSE /\ result' = returnTheError(outcome.left)
                 /\ pc' = "done"
                 /\ UNCHANGED <<state, finalState, firstRun, messages, outcome,
                                traversals, trace>>
    /\ UNCHANGED <<handedBack, error, numPoints, file, passVars, exitCode, transcript>>
    /\ UNCHANGED <<setupVars, writes, elsewhere>>

\* main's mapping of the result to the process status; a rejected
\* `await outcome()` is an unhandled rejection, which ends the process with 1
exitStatus(r) == IF isRight(r) THEN 0 ELSE 1

main ==
    /\ pc = "done"
    /\ exitCode' = exitStatus(result)
    /\ pc' = "exited"
    /\ UNCHANGED <<state, finalState, firstRun, handedBack, error, numPoints, file,
                   passVars, messages, outcome, result, traversals, trace, transcript>>
    /\ UNCHANGED <<setupVars, writes, elsewhere>>

Next ==
    \/ mainCopyToArtifacts
    \/ specAgentInit
    \/ refinedcInitExits
    \/ specAgent
    \/ readFileAndFindPoints
    \/ \E i \in 1..MaxPoints : i <= Len(promises) /\ completionSettles(i)
    \/ joinAndPatch
    \/ writeCFile
    \/ runRefinedCCheck
    \/ checkAndHandleError
    \/ fold
    \/ main

Spec == Init /\ [][Next]_vars

\* every external call returns and every continuation is scheduled
FairSpec == Spec /\ WF_vars(Next)

\* ------------------------------------------------- copyToArtifacts alone
\* main(filename) for every short path, followed up to the end of the copy
Components == {"sources", "Sources", "artifacts", "p", "f.c"}
Filenames == UNION {[1..n -> Components] : n \in 1..MaxDepth}

CopyInit == Started(Filenames)

CopyNext ==
    \/ mainCopyToArtifacts
    \/ main

CopySpec == CopyInit /\ [][CopyNext]_vars

\* -------------------------------------------------- the error analysis
\* runRefinedCCheck's rejection and processRefinedCError, on stderr texts
\* put together from at most MaxParts pieces
PartNames ==
    {"side condition", "lower case", "upper case", "Cannot solve side",
     " condition", "goal a", "goal c", "empty goal", "noise", "cut goal"}

upperCaseChar(c) ==
    IF \E i \in 1..Len(LowerCaseLetters) : LowerCaseLetters[i] = c
    THEN UpperCaseLetters[CHOOSE i \in 1..Len(LowerCaseLetters) : LowerCaseLetters[i] = c]
    ELSE c

\* the text of a piece
PartText(name) ==
    CASE name = "side condition" -> SideConditionMessage
      [] name = "lower case" -> toLowerCase(SideConditionMessage)
      [] name = "upper case" ->
            [i \in 1..Len(SideConditionMessage) |-> upperCaseChar(SideConditionMessage[i])]
      [] name = "Cannot solve side" -> SubSeq(SideConditionMessage, 1, 17)
      [] name = " condition" -> SubSeq(SideConditionMessage, 18, 27)
      [] name = "goal a" -> GoalMarker \o <<" ", "a", " ", "=", " ", "b", " ">> \o BlankLine
      [] name = "goal c" -> GoalMarker \o <<"c", "\n", "d">> \o BlankLine
      [] name = "empty goal" -> GoalMarker \o BlankLine
      [] name = "noise" -> <<"e", "r", "r", "\n">>
      [] name = "cut goal" -> GoalMarker \o <<"e">>

\* the goals a piece states: a piece that is a whole block states its body
PartGoals(name) ==
    CASE name = "goal a" -> <<<<"a", " ", "=", " ", "b">>>>
      [] name = "goal c" -> <<<<"c", "\n", "d">>>>
      [] OTHER -> <<>>

RECURSIVE textOf(_)
textOf(names) ==
    IF names = <<>> THEN <<>> ELSE PartText(Head(names)) \o textOf(Tail(names))

RECURSIVE statedGoals(_)
statedGoals(names) ==
    IF names = <<>> THEN <<>> ELSE PartGoals(Head(names)) \o statedGoals(Tail(names))

\* the stderr texts: a block cut short by the end of the output comes last
Stderrs ==
    {ps \in UNION {[1..n -> PartNames] : n \in 0..MaxParts} :
        \A i \in 1..Len(ps) : ps[i] = "cut goal" => i = Len(ps)}

\* the values a RefinedCError's type can hold: the enum, and anything else
ErrorKinds ==
    {"MalformedSpec", "NeedsLemmasOrIncorrectImplementation", "UnfinishedProof",
     "FilesystemOrToolError", "Unrecognized"}

\* the loops' variables, at rest
AgentUnused ==
    /\ filename = NoPath
    /\ artifactsFilename = NoPath
    /\ fsops = <<>>
    /\ writes = {}
    /\ marker = FALSE
    /\ initRun = "none"
    /\ state = createInitialAgentState(NoPath, 1)
    /\ finalState = state
    /\ handedBack = state
    /\ firstRun = TRUE
    /\ error = NoError
    /\ numPoints = 1
    /\ file = SourceText
    /\ code = SourceText
    /\ points = <<>>
    /\ parsed = SourceText
    /\ promises = <<>>
    /\ arrival = <<>>
    /\ annotationCompletion = NoCompletion
    /\ messages = <<>>
    /\ annotatedCode = SourceText
    /\ outcome = Pending
    /\ result = Pending
    /\ exitCode = -1
    /\ traversals = 0
    /\ trace = <<>>
    /\ transcript = <<>>

agentVars ==
    <<state, finalState, firstRun, handedBack, error, numPoints, file, passVars,
      messages, outcome, result, exitCode, traversals, trace, transcript,
      setupVars, writes>>

ErrInit ==
    /\ pc = "stderr"
    /\ AgentUnused
    /\ LemmaUnused
    /\ CoqUnused
    /\ PatchUnused
    /\ McpUnused
    /\ parts \in Stderrs
    /\ checkStderr = textOf(parts)
    /\ checkError = NoError
    /\ plan = NoPlan
    /\ goalTexts = <<>>

\* the exec callback of runRefinedCCheck on a failing run: the rejection
rejectWithRcError ==
    /\ pc = "stderr"
    /\ checkError' = [type |-> classifyRefinedCError(stderrOf(checkStderr, NoRun)),
                      stdout |-> "", stderr |-> stderrOf(checkStderr, NoRun),
                      exitcode |-> 1]
    /\ pc' = "classified"
    /\ UNCHANGED <<parts, checkStderr, plan, goalTexts, agentVars, coqVars, patchVars, mcpVars, lemmaVars>>

\* processRefinedCError, for the type the classification gave and for every
\* other value of the type
processError ==
    /\ pc = "classified"
    /\ \E kind \in ErrorKinds :
         /\ checkError' = [checkError EXCEPT !.type = kind]
         /\ plan' = processRefinedCError(checkError')
         /\ goalTexts' = IF plan'.type = "StateLemmas"
                         THEN extractGoalTexts(checkStderr) ELSE <<>>
    /\ pc' = "planned"
    /\ UNCHANGED <<parts, checkStderr, agentVars, coqVars, patchVars, mcpVars, lemmaVars>>

ErrNext ==
    \/ rejectWithRcError
    \/ processError

ErrSpec == ErrInit /\ [][ErrNext]_vars

\* ---------------------------------------------------- the lemma commands
\* lemmas-loop (scripts/lemmasLoop.ts) and its predecessor refinedC-checker:
\* one `refinedc check`, the plan made from its error, and the rounds of
\* lemma generation and checking.
Scripts == {"lemmas-loop", "refinedC-checker"}

\* the fuel main gives to loop
InitialFuel == 5

\* what the failing check of a lemma command can print
LemmaStderrs ==
    {[text |-> "refinedc", sideCondition |-> sc, goals |-> n, run |-> NoRun] :
        sc \in BOOLEAN, n \in 0..MaxGoals}

\* generateLemmas(goals): one promise per goal, in the order of the goals
generateLemmas(goals) ==
    [i \in 1..Len(goals) |-> [status |-> "pending", goal |-> goals[i], value |-> <<>>]]

\* the lemmas of a list taken last to first
extractAndRunLemmasReversed(lemmaResults) ==
    [i \in 1..Len(lemmaResults) |->
        [lemma |-> lemmaResults[Len(lemmaResults) + 1 - i], result |-> "not run"]]

\* extractAndRunLemmas(lemmaResults): one lazy outcome per statement, in the
\* order of the statements (extractCoqCode and A.map both map in place)
extractAndRunLemmas(lemmaResults) ==
    [i \in 1..Len(lemmaResults) |-> [lemma |-> lemmaResults[i], result |-> "not run"]]

\* the round's locals once the round is over
roundEnds ==
    /\ lemmaPromises' = <<>>
    /\ lemmaArrival' = <<>>
    /\ lemmaStatements' = <<>>
    /\ coqOutcomes' = <<>>

LemmaInit ==
    /\ pc = "generatePlan"
    /\ AgentUnused
    /\ TextUnused
    /\ CoqUnused
    /\ PatchUnused
    /\ McpUnused
    /\ script \in Scripts
    /\ fuel = 0
    /\ successes = 0
    /\ lemmaPromises = <<>>
    /\ lemmaArrival = <<>>
    /\ lemmaStatements = <<>>
    /\ coqOutcomes = <<>>
    /\ returned = "nothing"
    /\ lemmaExit = -1
    /\ rounds = 0
    /\ passed = 0

\* main up to its first decision.  lemmas-loop: generatePlan, and false when
\* the check passed.  refinedC-checker: the task's Either is tested for
\* truthiness, which every Either has, so main returns true; the completions
\* its mapLeft callback started are left behind.
generatePlan ==
    /\ pc = "generatePlan"
    /\ \E o \in {Right} \cup
                {Left([type |-> classifyRefinedCError(se), stdout |-> "",
                       stderr |-> se, exitcode |-> 1]) : se \in LemmaStderrs} :
         /\ checkError' = o.left
         /\ plan' = IF isRight(o) THEN NoPlan ELSE processRefinedCError(o.left)
         /\ IF script = "refinedC-checker"
            THEN /\ returned' = "true"
                 /\ pc' = "returned"
                 /\ UNCHANGED fuel
            ELSE IF isRight(o)
            THEN /\ returned' = "false"
                 /\ pc' = "returned"
                 /\ UNCHANGED fuel
            ELSE /\ fuel' = InitialFuel
                 /\ pc' = "loop"
                 /\ UNCHANGED returned
    /\ UNCHANGED <<parts, checkStderr, goalTexts, agentVars, coqVars, patchVars, mcpVars, script, successes,
                   lemmaPromises, lemmaArrival, lemmaStatements, coqOutcomes,
                   lemmaExit, rounds, passed>>

\* loop -> coqOutcomes -> planToLemmaCompletions: generateLemmas starts one
\* completion per goal for a StateLemmas plan; any other plan gives no
\* outcomes
planToLemmaCompletions ==
    /\ pc = "loop"
    /\ IF plan.type = "StateLemmas"
       THEN /\ lemmaPromises' = generateLemmas(plan.goals)
            /\ pc' = "generateLemmas"
       ELSE /\ pc' = "outcomes"
            /\ UNCHANGED lemmaPromises
    /\ rounds' = rounds + 1
    /\ UNCHANGED <<textVars, agentVars, coqVars, patchVars, mcpVars, script, fuel, successes, lemmaArrival,
                   lemmaStatements, coqOutcomes, returned, lemmaExit, passed>>

\* one completion request returns.  A failed one rejects its promise, and
\* with it Promise.all, generateLemmas, the round's task, loop and main: the
\* command's catch exits with 1.
lemmaCompletionSettles(i) ==
    /\ pc = "generateLemmas"
    /\ lemmaPromises[i].status = "pending"
    /\ \E ok \in BOOLEAN :
         IF ok
         THEN /\ lemmaPromises' = [lemmaPromises EXCEPT
                    ![i] = [status |-> "fulfilled", goal |-> @.goal,
                            value |-> <<"lemma", @.goal>>]]
              /\ UNCHANGED <<pc, lemmaExit>>
         ELSE /\ lemmaPromises' = [lemmaPromises EXCEPT ![i].status = "rejected"]
              /\ lemmaExit' = 1
              /\ pc' = "exited"
    /\ lemmaArrival' = Append(lemmaArrival, i)
    /\ UNCHANGED <<textVars, agentVars, coqVars, patchVars, mcpVars, script, fuel, successes, lemmaStatements,
                   coqOutcomes, returned, rounds, passed>>

\* Promise.all(lemmaPromises) resolves; extractAndRunLemmas builds the
\* outcomes
generateLemmasReturns ==
    /\ pc = "generateLemmas"
    /\ \A i \in 1..Len(lemmaPromises) : lemmaPromises[i].status = "fulfilled"
    /\ lemmaStatements' = PromiseAll(lemmaPromises, lemmaArrival)
    /\ coqOutcomes' = extractAndRunLemmas(lemmaStatements')
    /\ pc' = "outcomes"
    /\ UNCHANGED <<textVars, agentVars, coqVars, patchVars, mcpVars, script, fuel, successes, lemmaPromises,
                   lemmaArrival, returned, lemmaExit, rounds, passed>>

\* loop's for: the next outcome is run (temporary file, coqc, clean-up) and
\* counted when it is a Right
runOutcome ==
    /\ pc = "outcomes"
    /\ \E i \in 1..Len(coqOutcomes) :
         /\ coqOutcomes[i].result = "not run"
         /\ \A j \in 1..(i - 1) : coqOutcomes[j].result # "not run"
         /\ \E r \in {"Right", "Left"} :
              /\ coqOutcomes' = [coqOutcomes EXCEPT ![i].result = r]
              /\ successes' = IF r = "Right" THEN successes + 1 ELSE successes
              /\ passed' = IF r = "Right" THEN passed + 1 ELSE passed
    /\ UNCHANGED <<textVars, agentVars, coqVars, patchVars, mcpVars, script, fuel, lemmaPromises, lemmaArrival,
                   lemmaStatements, returned, lemmaExit, pc, rounds>>

\* a loop that goes on until a lemma has been checked successfully
continuesUntilSuccessful(fuelLeft, successCount) == fuelLeft > 0 /\ successCount = 0

\* loop's test after the for: `if (fuel > 0)`
continuesLoop(fuelLeft, successCount) == fuelLeft > 0

\* the end of loop's body: the recursive call while fuel is left, else the
\* return to main, which returns successes.length > 0
loopEnds ==
    /\ pc = "outcomes"
    /\ \A i \in 1..Len(coqOutcomes) : coqOutcomes[i].result # "not run"
    /\ IF continuesLoop(fuel, successes)
       THEN /\ fuel' = fuel - 1
            /\ pc' = "loop"
            /\ UNCHANGED returned
       ELSE /\ returned' = IF successes > 0 THEN "true" ELSE "false"
            /\ pc' = "returned"
            /\ UNCHANGED fuel
    /\ roundEnds
    /\ UNCHANGED <<textVars, agentVars, coqVars, patchVars, mcpVars, script, successes, lemmaExit,
                   rounds, passed>>

\* the command's action: process.exit(result ? 0 : 1)
lemmaCommandExits ==
    /\ pc = "returned"
    /\ lemmaExit' = IF returned = "true" THEN 0 ELSE 1
    /\ pc' = "exited"
    /\ UNCHANGED <<textVars, agentVars, coqVars, patchVars, mcpVars, script, fuel, successes, lemmaPromises,
                   lemmaArrival, lemmaStatements, coqOutcomes, returned, rounds, passed>>

LemmaNext ==
    \/ generatePlan
    \/ planToLemmaCompletions
    \/ \E i \in 1..MaxGoals : i <= Len(lemmaPromises) /\ lemmaCompletionSettles(i)
    \/ generateLemmasReturns
    \/ runOutcome
    \/ loopEnds
    \/ lemmaCommandExits

LemmaSpec == LemmaInit /\ [][LemmaNext]_vars

\* every completion request and every coqc run returns, and every
\* continuation of an await is scheduled
LemmaFairSpec == LemmaSpec /\ WF_vars(LemmaNext)

\* ----------------------------------------------------- the lemma checker
\* extractAndRunLemmas on a batch of lemma statements, and the run of every
\* outcome it returns (loop runs them one after the other).
MaxLemmas == 2   \* statements in a batch

\* a value of the enum CoqErrorType
CoqErrorType(name) == [enum |-> name]

NoCoqError == [type |-> CoqErrorType("None"), stdout |-> <<>>, stderr |-> <<>>, exitcode |-> 0]

\* what XMLParser.parse makes of `<root>${result}</root>`: an object whose
\* root.coq is the text of the <coq> element, an object without root.coq
\* (a reply that holds no <coq> element), or an exception
Statements == {"coq block", "no coq block", "parser throws"}

\* the texts classifyCoqError looks for
SyntaxErrorMessage ==
    <<"S", "y", "n", "t", "a", "x", " ", "e", "r", "r", "o", "r", ":">>

PendingProofsMessage ==
    <<"T", "h", "e", "r", "e", " ", "a", "r", "e", " ", "p", "e", "n", "d",
      "i", "n", "g", " ", "p", "r", "o", "o", "f", "s">>

CoqNoise ==
    <<"E", "r", "r", "o", "r", ":", "\n">>

\* what a failing coqc can print
CoqStderrs ==
    {<<>>, CoqNoise, SyntaxErrorMessage, PendingProofsMessage,
     toLowerCase(SyntaxErrorMessage),
     CoqNoise \o SyntaxErrorMessage \o CoqNoise \o PendingProofsMessage,
     PendingProofsMessage \o CoqNoise \o SyntaxErrorMessage,
     SubSeq(SyntaxErrorMessage, 1, 12) \o PendingProofsMessage}

classifyCoqError(stderr) ==
    IF includes(stderr, SyntaxErrorMessage)
    THEN [type |-> CoqErrorType("SyntaxError"), stdout |-> <<>>, stderr |-> stderr,
          exitcode |-> 1]
    ELSE IF includes(stderr, PendingProofsMessage)
    THEN [type |-> CoqErrorType("IncompleteProof"), stdout |-> <<>>, stderr |-> stderr,
          exitcode |-> 1]
    ELSE [type |-> CoqErrorType("UnknownErrorType"), stdout |-> <<>>, stderr |-> stderr,
          exitcode |-> 1]

\* String(miscParseError) of the exception the parser threw
ParseErrorDetail ==
    <<"E", "r", "r", "o", "r", ":", " ", "x", "m", "l">>

\* String(error) of a failed fs.promises.writeFile
FileErrorDetail ==
    <<"E", "r", "r", "o", "r", ":", " ", "E", "A", "C", "C", "E", "S">>

parseErrorToCoqError(parseError) ==
    [type |-> CoqErrorType("FileSystemError"), stdout |-> <<>>,
     stderr |-> parseError.miscParseError, exitcode |-> 1]

fileErrorToCoqError(fileError) ==
    [type |-> CoqErrorType("FileSystemError"), stdout |-> <<>>,
     stderr |-> fileError.miscFileIOError, exitcode |-> 1]

\* extractCoqCode: one Either per statement; parsed.root?.coq is undefined
\* when the reply holds no <coq> element, and E.right(undefined) is a Right
extractCoqCode(lemmaResults) ==
    [i \in 1..Len(lemmaResults) |->
        IF lemmaResults[i] = "parser throws"
        THEN [tag |-> "Left", value |-> [miscParseError |-> ParseErrorDetail]]
        ELSE [tag |-> "Right",
              value |-> IF lemmaResults[i] = "coq block" THEN "coq" ELSE "undefined"]]

\* path.parse(path.join(os.tmpdir(), `lemmas_${Date.now()}.v`))
NoParsedPath == [dir |-> <<>>, base |-> <<>>]

tempFilePath(time) == [dir |-> <<"tmp">>, base |-> <<"lemmas", time>>]

\* the path a ParsedPath was parsed from
format(parsedPath) == parsedPath.dir \o parsedPath.base

\* String(filePath) and `${filePath}` of a ParsedPath, which is a plain
\* object without a toString of its own
toString(parsedPath) == <<"[object Object]">>

\* fs.promises.unlink(path).catch(() => {}): the file is removed when there
\* is one of that path; the rejection when there is none is dropped
unlink(files, path) == files \ {path}

\* cleanupTempFile(filePath): the files left in os.tmpdir()
cleanupTempFile(files, filePath) == unlink(files, toString(filePath))

\* the rejection of runCoqc's promise for a failing coqc, as onRejected
\* returns it: `type` holds what classifyCoqError returned
runCoqcRejects(stdout, stderr, exitcode) ==
    [type |-> classifyCoqError(stderr), stdout |-> stdout, stderr |-> stderr,
     exitcode |-> exitcode]

\* the outcomes as extractAndRunLemmas returns them: none has run
processLemmas(lemmaResults) ==
    [i \in 1..Len(lemmaResults) |->
        [program |-> extractCoqCode(lemmaResults)[i], step |-> "lazy",
         path |-> NoParsedPath, outcome |-> [tag |-> "None", left |-> NoCoqError]]]

CoqInit ==
    /\ pc = "extractAndRunLemmas"
    /\ AgentUnused
    /\ TextUnused
    /\ LemmaUnused
    /\ PatchUnused
    /\ McpUnused
    /\ lemmaTexts \in UNION {[1..n -> Statements] : n \in 0..MaxLemmas}
    /\ tasks = <<>>
    /\ tmpdir = {}
    /\ now = 0

\* what the actions of the lemma checker leave alone
coqFrame == <<textVars, lemmaVars, agentVars, patchVars, mcpVars, lemmaTexts>>

\* extractAndRunLemmas(lemmaResults) returns
extractAndRunLemmasReturns ==
    /\ pc = "extractAndRunLemmas"
    /\ tasks' = processLemmas(lemmaTexts)
    /\ pc' = "outcomes"
    /\ UNCHANGED <<coqFrame, tmpdir, now>>

\* the turn of outcome i in loop's for
nextOutcome(i) ==
    /\ pc = "outcomes"
    /\ i \in 1..Len(tasks)
    /\ \A j \in 1..(i - 1) : tasks[j].step = "done"

\* outcome i is run.  A statement whose extraction failed is TE.left of the
\* parse error; the others begin with createTempFile
outcomeStarts(i) ==
    /\ nextOutcome(i)
    /\ tasks[i].step = "lazy"
    /\ IF tasks[i].program.tag = "Left"
       THEN /\ tasks' = [tasks EXCEPT
                  ![i].step = "done",
                  ![i].outcome = [tag |-> "Left",
                                  left |-> parseErrorToCoqError(tasks[i].program.value)]]
            /\ UNCHANGED <<tmpdir, now>>
       ELSE /\ now' = now + 1
            /\ \E ok \in BOOLEAN :
                 IF ok
                 THEN /\ tmpdir' = tmpdir \cup {format(tempFilePath(now'))}
                      /\ tasks' = [tasks EXCEPT ![i].step = "runCoqc",
                                                ![i].path = tempFilePath(now')]
                 ELSE /\ tasks' = [tasks EXCEPT
                            ![i].step = "done",
                            ![i].outcome =
                                [tag |-> "Left",
                                 left |-> fileErrorToCoqError(
                                              [miscFileIOError |-> FileErrorDetail])]]
                      /\ UNCHANGED tmpdir
    /\ UNCHANGED <<coqFrame, pc>>

\* the exec callback of runCoqc.  On a failure TE.chain skips what follows,
\* cleanupTempFile included
coqcExits(i) ==
    /\ nextOutcome(i)
    /\ tasks[i].step = "runCoqc"
    /\ \E exit \in BOOLEAN, stderr \in CoqStderrs :
         IF exit
         THEN tasks' = [tasks EXCEPT
                  ![i].step = "done",
                  ![i].outcome = [tag |-> "Left",
                                  left |-> runCoqcRejects(<<>>, stderr, 1)]]
         ELSE stderr = <<>> /\ tasks' = [tasks EXCEPT ![i].step = "cleanupTempFile"]
    /\ UNCHANGED <<coqFrame, pc, tmpdir, now>>

\* cleanupTempFile(path) after a passing coqc
cleanup(i) ==
    /\ nextOutcome(i)
    /\ tasks[i].step = "cleanupTempFile"
    /\ tmpdir' = cleanupTempFile(tmpdir, tasks[i].path)
    /\ tasks' = [tasks EXCEPT ![i].step = "done",
                              ![i].outcome = [tag |-> "Right", left |-> NoCoqError]]
    /\ UNCHANGED <<coqFrame, pc, now>>

CoqNext ==
    \/ extractAndRunLemmasReturns
    \/ \E i \in 1..MaxLemmas : outcomeStarts(i)
    \/ \E i \in 1..MaxLemmas : coqcExits(i)
    \/ \E i \in 1..MaxLemmas : cleanup(i)

CoqSpec == CoqInit /\ [][CoqNext]_vars

\* -------------------------------------------- the locator and the patcher
\* findAnnotationPoints and insertAnnotations on C texts.  A text is the
\* sequence of its characters; the operators below take and give the
\* 0-based indices of the code.  The syntax tree of a text is what
\* tree-sitter makes of it, given with the text.
MaxAnnotations == 2   \* annotations given to insertAnnotations

Node(type, startIndex, name, children) ==
    [type |-> type, startIndex |-> startIndex, name |-> name, children |-> children]

Sources == {"one line", "loop", "two functions", "nested"}

\* the text of a source
SourceCode(name) ==
    CASE name = "one line" ->
           <<"i", "n", "t", " ", "a", "d", "d", "(", "i", "n", "t", " ", "a", ",",
             "i", "n", "t", " ", "b", ")", "{", "r", "e", "t", "u", "r", "n", " ",
             "a", "+", "b", ";", "}">>
      [] name = "loop" ->
           <<"v", "o", "i", "d", " ", "f", "(", ")", "{", "\n", " ", " ", "w",
             "h", "i", "l", "e", "(", "1", ")", "{", "}", "\n", "}">>
      [] name = "two functions" ->
           <<"v", "o", "i", "d", " ", "f", "(", ")", "{", "}", "\n", "v", "o",
             "i", "d", " ", "g", "(", ")", "{", "}">>
      [] name = "nested" ->
           <<"v", "o", "i", "d", " ", "f", "(", ")", "{", "f", "o", "r", "(", ";",
             ";", ")", "{", "d", "o", "{", "}", "w", "h", "i", "l", "e", "(", "1",
             ")", ";", "}", "}">>

\* its syntax tree (tree.rootNode), cut down to the nodes traverseTree
\* emits points for and the compound statements that are their bodies
SourceTree(name) ==
    CASE name = "one line" ->
           Node("translation_unit", 0, "", <<
               Node("function_definition", 0, "add", <<
                   Node("compound_statement", 20, "", <<>>)>>)>>)
      [] name = "loop" ->
           Node("translation_unit", 0, "", <<
               Node("function_definition", 0, "f", <<
                   Node("compound_statement", 8, "", <<
                       Node("while_statement", 12, "", <<
                           Node("compound_statement", 20, "", <<>>)>>)>>)>>)>>)
      [] name = "two functions" ->
           Node("translation_unit", 0, "", <<
               Node("function_definition", 0, "f", <<
                   Node("compound_statement", 8, "", <<>>)>>),
               Node("function_definition", 11, "g", <<
                   Node("compound_statement", 19, "", <<>>)>>)>>)
      [] name = "nested" ->
           Node("translation_unit", 0, "", <<
               Node("function_definition", 0, "f", <<
                   Node("compound_statement", 8, "", <<
                       Node("for_statement", 9, "", <<
                           Node("compound_statement", 16, "", <<
                               Node("do_statement", 17, "", <<
                                   Node("compound_statement", 19, "", <<>>)>>)>>)>>)>>)>>)>>)

LoopTypes == {"for_statement", "while_statement", "do_statement"}

\* traverseTree(node): the point of the node, if it is a function or a
\* loop, then the points of its children, in the order of the children
\* (the field `body` of a point is left out)
RECURSIVE traverseTree(_)
RECURSIVE traverseChildren(_, _)

\* node.childForFieldName("body")
bodyNode(node) ==
    node.children[CHOOSE i \in 1..Len(node.children) :
                      node.children[i].type = "compound_statement"]

\* a traversal whose points are the offsets inside the opening braces
traverseTreeInsideBraces(node) ==
    (IF node.type = "function_definition"
     THEN <<[name |-> node.name, startIndex |-> bodyNode(node).startIndex + 1,
             type |-> "Function"]>>
     ELSE IF node.type \in {"for_statement", "while_statement", "do_statement"}
     THEN <<[name |-> "", startIndex |-> bodyNode(node).startIndex + 1,
             type |-> "Loop"]>>
     ELSE <<>>)
    \o traverseChildren(node, 1)

traverseTree(node) ==
    (IF node.type = "function_definition"
     THEN <<[name |-> node.name, startIndex |-> node.startIndex, type |-> "Function"]>>
     ELSE IF node.type \in LoopTypes
     THEN <<[name |-> "", startIndex |-> node.startIndex, type |-> "Loop"]>>
     ELSE <<>>)
    \o traverseChildren(node, 1)

traverseChildren(node, i) ==
    IF i > Len(node.children) THEN <<>>
    ELSE traverseTree(node.children[i]) \o traverseChildren(node, i + 1)

\* how many elements Array.prototype.sort with (a, b) => b - a puts before
\* element i: those of a greater key, and those of the same key that come
\* before it (the sort is stable)
before(keys, i) ==
    Cardinality({j \in 1..Len(keys) :
                    keys[j] > keys[i] \/ (keys[j] = keys[i] /\ j < i)})

\* a sort that leaves the points as traverseTree found them
pointsAsTraversed(pts) == pts

\* points.sort((a, b) => b.startIndex - a.startIndex)
sortPoints(pts) ==
    LET keys == [i \in 1..Len(pts) |-> pts[i].startIndex]
    IN [r \in 1..Len(pts) |-> pts[CHOOSE i \in 1..Len(pts) : before(keys, i) = r - 1]]

\* [...annotations].sort((a, b) => b.point.startIndex - a.point.startIndex)
sortAnnotations(annotations) ==
    LET keys == [i \in 1..Len(annotations) |-> annotations[i].point.startIndex]
    IN [r \in 1..Len(annotations) |->
           annotations[CHOOSE i \in 1..Len(annotations) : before(keys, i) = r - 1]]

\* findAnnotationPoints of lib/spec/insertion.ts, on the tree of the text
findAnnotationPointsOfTree(rootNode) == sortPoints(traverseTree(rootNode))

\* String.prototype.substring(from, to), and with one argument
substring(text, from, to) ==
    LET clamp(n) == IF n < 0 THEN 0 ELSE IF n > Len(text) THEN Len(text) ELSE n
        lo == IF clamp(from) <= clamp(to) THEN clamp(from) ELSE clamp(to)
        hi == IF clamp(from) <= clamp(to) THEN clamp(to) ELSE clamp(from)
    IN SubSeq(text, lo + 1, hi)

substringFrom(text, from) == substring(text, from, Len(text))

\* String.prototype.lastIndexOf(ch, fromIndex) for a one-character ch
lastIndexOf(text, ch, fromIndex) ==
    LET found == {i \in 0..(Len(text) - 1) : i <= fromIndex /\ text[i + 1] = ch}
    IN IF found = {} THEN -1 ELSE CHOOSE i \in found : \A j \in found : j <= i

\* text.match(/^\s*/)[0]
RECURSIVE leadingWhiteSpace(_)
leadingWhiteSpace(text) ==
    IF text = <<>> \/ Head(text) \notin WhiteSpace THEN <<>>
    ELSE <<Head(text)>> \o leadingWhiteSpace(Tail(text))

endsWith(text, ch) == text # <<>> /\ text[Len(text)] = ch

\* formattedContent.split("\n").map((line) => (line ? indentation + line :
\* line)).join("\n"): the indentation goes before the first character of
\* every line that has one
RECURSIVE indentLines(_, _, _)
indentLines(content, indentation, atLineStart) ==
    IF content = <<>> THEN <<>>
    ELSE (IF atLineStart /\ Head(content) # "\n" THEN indentation ELSE <<>>)
         \o <<Head(content)>>
         \o indentLines(Tail(content), indentation, Head(content) = "\n")

\* the pattern /^((?:\[\[rc::.*?\]\]\s*)+)/
RcOpen ==
    <<"[", "[", "r", "c", ":", ":">>

RcClose ==
    <<"]", "]">>

\* the characters "." does not match
LineTerminators == {"\n", "\r"}

\* the length of one \[\[rc::.*?\]\]\s* at the start of the text, 0 when the
\* text does not start with one: up to the first "]]" of the line, and the
\* white space after it
annotationLength(text) ==
    LET closings == {j \in (Len(RcOpen) + 1)..Len(text) :
                        /\ occursAt(text, j, RcClose)
                        /\ \A k \in (Len(RcOpen) + 1)..(j - 1) :
                               text[k] \notin LineTerminators}
    IN IF ~occursAt(text, 1, RcOpen) \/ closings = {} THEN 0
       ELSE LET j == CHOOSE c \in closings : \A x \in closings : c <= x
            IN j + 1 + Len(leadingWhiteSpace(SubSeq(text, j + 2, Len(text))))

\* a match that takes all that follows the point
restOfText(text) == Len(text)

\* existingAnnotationMatch[1].length, 0 when there is no match
RECURSIVE existingAnnotationLength(_)
existingAnnotationLength(text) ==
    IF annotationLength(text) = 0 THEN 0
    ELSE annotationLength(text)
         + existingAnnotationLength(SubSeq(text, annotationLength(text) + 1, Len(text)))

\* the body of insertAnnotations' for: the text after one annotation is put
\* in; `replaces` tells whether the version looks for an annotation that is
\* already there
insertOne(current, annotation, replaces) ==
    LET startIndex == annotation.point.startIndex
        found == lastIndexOf(current, "\n", startIndex)
        lineStart == IF found = -1 THEN 0 ELSE found + 1
        indentation == leadingWhiteSpace(substring(current, lineStart, startIndex))
        formattedContent == IF endsWith(annotation.content, "\n")
                            THEN annotation.content
                            ELSE annotation.content \o <<"\n">>
        indentedContent == indentLines(formattedContent, indentation, TRUE)
        replacedLength ==
            IF replaces THEN existingAnnotationLength(substringFrom(current, startIndex))
            ELSE 0
    IN substring(current, 0, startIndex)
       \o indentedContent
       \o substringFrom(current, startIndex + replacedLength)

RECURSIVE insertEach(_, _, _)
insertEach(current, annotations, replaces) ==
    IF annotations = <<>> THEN current
    ELSE insertEach(insertOne(current, Head(annotations), replaces),
                    Tail(annotations), replaces)

\* insertAnnotations of legacy lib/spec/insertion.ts: sorted, replacing
insertAnnotationsSorted(input, annotations) ==
    insertEach(input, sortAnnotations(annotations), TRUE)

\* insertAnnotations of the other insertion.ts (part_005): in the order
\* supplied, never replacing
insertAnnotationsAsSupplied(input, annotations) ==
    insertEach(input, annotations, FALSE)

Patchers == {"sorts and replaces", "as supplied"}

patch(which, input, annotations) ==
    IF which = "sorts and replaces" THEN insertAnnotationsSorted(input, annotations)
    ELSE insertAnnotationsAsSupplied(input, annotations)

\* the contents a completion can give for a point
Contents ==
    {<<"[", "[", "r", "c", ":", ":", "x", "]", "]">>,
     <<"[", "[", "r", "c", ":", ":", "y", "]", "]", "\n">>,
     <<"[", "[", "a", "n", "n", ":", ":", "x", "]", "]", "\n">>}

\* the annotation lists: on points of the list `pts`, no two on one point
AnnotationLists(pts) ==
    {as \in UNION {[1..n -> [point : Range(pts), content : Contents]] :
                      n \in 0..MaxAnnotations} :
        \A i, j \in 1..Len(as) : i # j => as[i].point # as[j].point}

PatchInit ==
    /\ pc = "source"
    /\ AgentUnused
    /\ TextUnused
    /\ LemmaUnused
    /\ CoqUnused
    /\ McpUnused
    /\ source \in Sources
    /\ located = <<>>
    /\ patcher = "none"
    /\ supplied = <<>>
    /\ patchedOnce = <<>>
    /\ patchedTwice = <<>>

\* what the locator and the patcher leave alone
patchFrame == <<textVars, lemmaVars, coqVars, agentVars, mcpVars, source>>

\* findAnnotationPoints(code)
findPoints ==
    /\ pc = "source"
    /\ located' = findAnnotationPointsOfTree(SourceTree(source))
    /\ pc' = "located"
    /\ UNCHANGED <<patchFrame, patcher, supplied, patchedOnce, patchedTwice>>

\* insertAnnotations(code, annotations), by either version
patchOnce ==
    /\ pc = "located"
    /\ \E which \in Patchers, annotations \in AnnotationLists(located) :
         /\ patcher' = which
         /\ supplied' = annotations
         /\ patchedOnce' = patch(which, SourceCode(source), annotations)
    /\ pc' = "patched"
    /\ UNCHANGED <<patchFrame, located, patchedTwice>>

\* insertAnnotations(insertAnnotations(code, annotations), annotations)
patchAgain ==
    /\ pc = "patched"
    /\ patchedTwice' = patch(patcher, patchedOnce, supplied)
    /\ pc' = "patched twice"
    /\ UNCHANGED <<patchFrame, located, patcher, supplied, patchedOnce>>

\* parseAnnotations(response, point) on a reply that holds the annotation
\* elements `tags`: one Annotation per element, every one on `point`
parseAnnotationTags(tags, point) ==
    [k \in 1..Len(tags) |-> [point |-> point, content |-> tags[k]]]

\* the annotation elements a reply can hold
TagLists == UNION {[1..n -> Contents] : n \in 1..MaxAnnotations}

\* one annotation pass on the text: a completion per located point, the
\* completions flattened in the order of the points, and the patch.  One
\* point's reply holds the elements `tags`, the other replies one element.
patchCompletions ==
    /\ pc = "located"
    /\ \E which \in Patchers, several \in 1..Len(located), tags \in TagLists,
          single \in Contents :
         LET replies == [i \in 1..Len(located) |->
                            [annotations |->
                                 parseAnnotationTags(IF i = several THEN tags
                                                     ELSE <<single>>, located[i]),
                             messages |-> <<>>]]
             merged == flattenAnnotationCompletions(replies).annotations
         IN /\ patcher' = which
            /\ supplied' = merged
            /\ patchedOnce' = patch(which, SourceCode(source), merged)
    /\ pc' = "patched completions"
    /\ UNCHANGED <<patchFrame, located, patchedTwice>>

PatchNext ==
    \/ findPoints
    \/ patchOnce
    \/ patchAgain
    \/ patchCompletions

PatchSpec == PatchInit /\ [][PatchNext]_vars

\* ------------------------------------------------------ the MCP clients
\* McpClientWrapper and AnnotationCompletionClient (lib/mcp/client.ts): one
\* client object, the invocations of its async methods (startServer / start
\* with its call of connect, and disconnect / stop), which interleave at
\* their awaits, and the server processes it spawned.
MaxCalls == 3    \* invocations of the client's methods

ClientClasses == {"McpClientWrapper", "AnnotationCompletionClient"}
ServerTypes == {"stdio", "http"}

\* this.childProcess = null
NoProcess == 0

\* no method of the client has just returned
NoReturn == [method |-> "none", value |-> "none"]

\* connect's test for the stdio transport: McpClientWrapper asks for
\* serverType 'stdio' and a child process (a url is never passed by
\* startServer, so 'http' falls to "Invalid server configuration");
\* AnnotationCompletionClient asks for the child process only
usesChildProcess(class, type, child) ==
    IF class = "McpClientWrapper" THEN type = "stdio" /\ child # NoProcess
    ELSE child # NoProcess

\* childProcess.spawn(...): the processes with one more, running
spawn(processes) == Append(processes, "running")

\* this.childProcess.kill()
kill(processes, child) == [processes EXCEPT ![child] = "killed"]

\* the invocations in flight without the i-th, which has returned
returns(inFlight, i) ==
    [j \in 1..(Len(inFlight) - 1) |-> IF j < i THEN inFlight[j] ELSE inFlight[j + 1]]

McpInit ==
    /\ pc = "client"
    /\ AgentUnused
    /\ TextUnused
    /\ LemmaUnused
    /\ CoqUnused
    /\ PatchUnused
    /\ clientClass \in ClientClasses
    /\ serverType \in IF clientClass = "McpClientWrapper" THEN ServerTypes ELSE {"stdio"}
    /\ mcpClient = "null"
    /\ childProcess = NoProcess
    /\ isRunning = FALSE
    /\ spawned = <<>>
    /\ calls = <<>>
    /\ invoked = 0
    /\ returnedFrom = NoReturn

\* what the actions of the client leave alone
mcpFrame == <<pc, textVars, lemmaVars, coqVars, patchVars, agentVars, clientClass,
              serverType>>

\* startServer(scriptPath) / start() up to its await: the early return when
\* isRunning, the missing script, else the spawn and the one-second timer
startServer ==
    /\ invoked < MaxCalls
    /\ invoked' = invoked + 1
    /\ IF isRunning
       THEN /\ returnedFrom' = [method |-> "startServer", value |-> "true"]
            /\ UNCHANGED <<childProcess, spawned, calls>>
       ELSE \E existsSync \in BOOLEAN :
              IF ~existsSync
              THEN /\ returnedFrom' = [method |-> "startServer", value |-> "false"]
                   /\ UNCHANGED <<childProcess, spawned, calls>>
              ELSE /\ spawned' = spawn(spawned)
                   /\ childProcess' = Len(spawned')
                   /\ calls' = Append(calls, [method |-> "startServer", at |-> "setTimeout"])
                   /\ returnedFrom' = NoReturn
    /\ UNCHANGED <<mcpFrame, mcpClient, isRunning>>

\* the timer of one startServer fires and it calls connect(): a new Client,
\* the transport and the pipes, up to `await this.client.connect`
connect(i) ==
    /\ calls[i] = [method |-> "startServer", at |-> "setTimeout"]
    /\ mcpClient' = "Client"
    /\ \E exposesPipes \in BOOLEAN :
         IF usesChildProcess(clientClass, serverType, childProcess) /\ exposesPipes
         THEN /\ calls' = [calls EXCEPT ![i].at = "client.connect"]
              /\ returnedFrom' = NoReturn
         ELSE /\ calls' = returns(calls, i)
              /\ returnedFrom' = [method |-> "startServer", value |-> "false"]
    /\ UNCHANGED <<mcpFrame, childProcess, isRunning, spawned, invoked>>

\* client.connect(transport) resolves or rejects
clientConnectSettles(i) ==
    /\ calls[i] = [method |-> "startServer", at |-> "client.connect"]
    /\ \E ok \in BOOLEAN :
         /\ isRunning' = (isRunning \/ ok)
         /\ returnedFrom' = [method |-> "startServer",
                             value |-> IF ok THEN "true" ELSE "false"]
    /\ calls' = returns(calls, i)
    /\ UNCHANGED <<mcpFrame, mcpClient, childProcess, spawned, invoked>>

\* disconnect() / stop() up to its await: nothing when not isRunning
disconnect ==
    /\ invoked < MaxCalls
    /\ invoked' = invoked + 1
    /\ IF ~isRunning
       THEN /\ returnedFrom' = [method |-> "disconnect", value |-> "void"]
            /\ UNCHANGED <<mcpClient, childProcess, isRunning, spawned, calls>>
       ELSE IF mcpClient # "null"
       THEN /\ calls' = Append(calls, [method |-> "disconnect", at |-> "client.close"])
            /\ returnedFrom' = NoReturn
            /\ UNCHANGED <<mcpClient, childProcess, isRunning, spawned>>
       ELSE /\ spawned' = IF childProcess # NoProcess THEN kill(spawned, childProcess)
                          ELSE spawned
            /\ childProcess' = NoProcess
            /\ isRunning' = FALSE
            /\ returnedFrom' = [method |-> "disconnect", value |-> "void"]
            /\ UNCHANGED <<mcpClient, calls>>
    /\ UNCHANGED mcpFrame

\* client.close() resolves, and disconnect kills the child it holds and
\* clears isRunning; or it rejects, and the catch logs the error
clientCloseSettles(i) ==
    /\ calls[i] = [method |-> "disconnect", at |-> "client.close"]
    /\ \E ok \in BOOLEAN :
         IF ok
         THEN /\ mcpClient' = "null"
              /\ spawned' = IF childProcess # NoProcess THEN kill(spawned, childProcess)
                            ELSE spawned
              /\ childProcess' = NoProcess
              /\ isRunning' = FALSE
         ELSE UNCHANGED <<mcpClient, spawned, childProcess, isRunning>>
    /\ calls' = returns(calls, i)
    /\ returnedFrom' = [method |-> "disconnect", value |-> "void"]
    /\ UNCHANGED <<mcpFrame, invoked>>

McpNext ==
    \/ startServer
    \/ \E i \in 1..MaxCalls : i <= Len(calls) /\ connect(i)
    \/ \E i \in 1..MaxCalls : i <= Len(calls) /\ clientConnectSettles(i)
    \/ disconnect
    \/ \E i \in 1..MaxCalls : i <= Len(calls) /\ clientCloseSettles(i)

McpSpec == McpInit /\ [][McpNext]_vars

\* ------------------------------------------------------------ properties
ended == pc \in {"done", "exited"}

isIoError(e) ==
    /\ e.tag = "Left"
    /\ e.left.type = "FilesystemOrToolError"
    /\ e.left.stderr.text \in {"Failed to read file", "Failed to write file"}

count(seq, x) == Cardinality({i \in 1..Len(seq) : seq[i] = x})

\* the place of point p in the located list
pointIndex(p) == CHOOSE i \in 1..Len(points) : points[i] = p

inPointOrder(seq) ==
    \A a, b \in 1..Len(seq) :
        a < b => pointIndex(seq[a].point) <= pointIndex(seq[b].point)

\* C1: for every budget k >= 1 and whatever the verifier and the completions
\* answer, the loop starts at most k traversals (runLoop steps, each with at
\* most one Annotating->Verifying pass) and the run then ends.
C1_BudgetTermination ==
    [](traversals <= state.maxIterations) /\ <>(pc = "exited")

C1_Witness ==
    /\ pc = "exited"
    /\ result.tag = "Left"
    /\ state.maxIterations >= 2
    /\ traversals = state.maxIterations

\* C2: when the first verifier check passes, the run ends after that one
\* traversal and one check, and the AgentState specAgent handed back to its
\* caller has iterations = 1 and completed = TRUE.
C2_FirstCheckPasses ==
    (ended /\ traversals = 1 /\ isRight(result)) =>
        /\ count(trace, "check") = 1
        /\ handedBack.iterations = 1
        /\ handedBack.completed

C4_OneIncrementPerTraversal ==
    pc # "specAgent" => finalState.iterations = traversals

\* C5: a failed read or write of the workspace file stops the loop at once:
\* the traversal's fold ends the run with an error result, even when budget
\* remains.
C5_IoErrorIsFatal ==
    [][(pc = "fold" /\ isIoError(outcome)) =>
            (pc' = "done" /\ result'.tag = "Left")]_vars

\* C6: when the synthesis of one point fails in a pass, the annotations the
\* other points' syntheses returned are patched into the file in that pass.
C6_PartialFailureTolerated ==
    \A i, j \in 1..Len(promises) :
        (ended /\ promises[i].status = "rejected" /\ promises[j].status = "fulfilled") =>
            \A k \in 1..Len(promises[j].value.annotations) :
                promises[j].value.annotations[k] \in Range(file.patch)

\* C7: a failed synthesis (backend call failed, or reply without well-formed
\* items) never aborts the run: the traversal counts as a failed iteration,
\* so a run that ended after one ended with an error value and a spent budget.
C7_SynthesisFailureIsFailedIteration ==
    (ended /\ \E i \in 1..Len(promises) : promises[i].status = "rejected") =>
        /\ result.tag = "Left"
        /\ ~shouldContinue(finalState)

\* C8: when the failed check's plan is StateLemmas, the lemma pipeline runs
\* in that traversal before any further annotation synthesis starts.
C8_LemmasBeforeResynthesis ==
    (pc = "synth" /\ ~firstRun /\ processRefinedCError(error).type = "StateLemmas") =>
        "lemmas" \in Range(trace)

\* C9: at every pass after the first, the history handed to each completion
\* call holds every message the earlier passes produced.
C9_HistoryThreaded ==
    (pc = "synth" /\ ~firstRun) =>
        \A i \in 1..Len(promises) :
            \A k \in 1..Len(transcript) :
                transcript[k] \in Range(promises[i].history)

\* C10: whatever the order in which the per-point syntheses of a pass
\* complete, the merged annotations and messages are in the order of the
\* located points.
C10_MergedInPointOrder ==
    pc = "write" =>
        /\ inPointOrder(annotationCompletion.annotations)
        /\ inPointOrder(annotationCompletion.messages)
        /\ messages = annotationCompletion.messages

C10_Witness ==
    /\ pc = "write"
    /\ Len(points) >= 2
    /\ arrival[1] # 1
    /\ Len(annotationCompletion.annotations) > Len(points)

\* C11: `refinedc init` is started only when rc-project.toml is absent and
\* only when no init was started before in the run (so at most once, and
\* never with the marker present), and it has exited before the loop, and so
\* the first `refinedc check`, starts.
C11_InitOnlyWithoutMarker ==
    /\ [][initRun' = "running" => (initRun = "none" /\ ~marker)]_vars
    /\ []((traversals >= 1 \/ "check" \in Range(trace)) => initRun # "running")

C11_Witness ==
    /\ initRun = "done"
    /\ "check" \in Range(trace)

\* C12: every file write of a specs-loop run targets the artifacts/ copy,
\* which is the currentFile of the AgentState from the first traversal on;
\* currentFile never changes, and the sources/ original is never written.
C12_WritesTargetWorkingCopy ==
    /\ [](\A w \in writes :
            /\ w # filename
            /\ w[1] = "artifacts"
            /\ traversals >= 1 =>
                   (w = state.currentFile /\ w = finalState.currentFile))
    /\ [][traversals >= 1 => state'.currentFile = state.currentFile]_vars

C12_Witness ==
    /\ file.rev >= 2
    /\ writes = {state.currentFile}
    /\ state.currentFile = <<"artifacts", "proj", "src", "f.c">>

C14_PlanForEveryKind ==
    pc = "planned" =>
        /\ plan.type \in {"EditSpec", "StateLemmas"}
        /\ checkError.type = "MalformedSpec" => plan = [type |-> "EditSpec", goals |-> <<>>]
        /\ checkError.type \in {"NeedsLemmasOrIncorrectImplementation", "UnfinishedProof"} =>
               /\ plan.type = "StateLemmas"
               /\ plan.goals = extractGoals(checkError.stderr)
               /\ Len(plan.goals) = Len(goalTexts)
        /\ checkError.type \in {"FilesystemOrToolError", "Unrecognized"} =>
               plan = [type |-> "EditSpec", goals |-> <<>>]

C14_Witness ==
    /\ pc = "planned"
    /\ checkError.type = "UnfinishedProof"
    /\ ~checkError.stderr.sideCondition
    /\ plan.type = "StateLemmas"
    /\ Len(plan.goals) = 2

\* the stderr text holds the literal message at some index
holdsSideCondition(text) ==
    \E i \in 1..(Len(text) - Len(SideConditionMessage) + 1) :
        SubSeq(text, i, i + Len(SideConditionMessage) - 1) = SideConditionMessage

\* C15: a failing run is classified NeedsLemmasOrIncorrectImplementation
\* when its stderr holds the literal text "Cannot solve side condition", and
\* MalformedSpec in every other case.
C15_ClassifiedBySubstring ==
    pc = "classified" =>
        checkError.type = IF holdsSideCondition(checkStderr)
                          THEN "NeedsLemmasOrIncorrectImplementation"
                          ELSE "MalformedSpec"

C15_Witness ==
    /\ pc = "classified"
    /\ parts = <<"noise", "Cannot solve side", " condition">>
    /\ checkError.type = "NeedsLemmasOrIncorrectImplementation"

\* the stderr text holds the message at some index, in some capitalisation
holdsInAnyCase(text) ==
    \E i \in 1..(Len(text) - Len(SideConditionMessage) + 1) :
        toLowerCase(SubSeq(text, i, i + Len(SideConditionMessage) - 1))
            = toLowerCase(SideConditionMessage)

\* C16: the classification ignores letter case: a failing stderr that holds
\* "cannot solve side condition" in any capitalisation is classified
\* NeedsLemmasOrIncorrectImplementation.
C16_ClassifiedIgnoringCase ==
    (pc = "classified" /\ holdsInAnyCase(checkStderr)) =>
        checkError.type = "NeedsLemmasOrIncorrectImplementation"

C18_EmptyGoalsIsFailure ==
    (pc = "exited" /\ plan.type = "StateLemmas" /\ plan.goals = <<>>) =>
        lemmaExit # 0

\* C19: whatever the order in which the completions of a round finish, the
\* i-th lemma statement generateLemmas returns and the i-th outcome
\* extractAndRunLemmas returns are those of the i-th goal of the plan.
C19_GoalOrderKept ==
    pc = "outcomes" =>
        /\ Len(lemmaStatements) = Len(lemmaPromises)
        /\ Len(coqOutcomes) = Len(lemmaStatements)
        /\ plan.type = "StateLemmas" => Len(lemmaStatements) = Len(plan.goals)
        /\ \A i \in 1..Len(lemmaStatements) :
               /\ lemmaStatements[i] = <<"lemma", plan.goals[i]>>
               /\ coqOutcomes[i].lemma = <<"lemma", plan.goals[i]>>

C19_Witness ==
    /\ pc = "outcomes"
    /\ Len(plan.goals) >= 2
    /\ lemmaArrival[1] # 1
    /\ coqOutcomes[Len(coqOutcomes)].result = "Right"

\* C20: when the completion request of one goal fails, generateLemmas still
\* returns the lemma statements of the goals whose requests succeeded.
C20_OtherGoalsStillReturned ==
    \A i, j \in 1..Len(lemmaPromises) :
        (pc = "exited" /\ lemmaPromises[i].status = "rejected"
                       /\ lemmaPromises[j].status = "fulfilled") =>
            lemmaPromises[j].value \in Range(lemmaStatements)

\* C21: for every outcome whose temporary file was created, the file is gone
\* from os.tmpdir() once the outcome has been produced, whether coqc passed
\* or failed.
C21_TempFileRemoved ==
    \A i \in 1..Len(tasks) :
        (tasks[i].step = "done" /\ tasks[i].path # NoParsedPath) =>
            format(tasks[i].path) \notin tmpdir

\* C22: extractAndRunLemmas returns one outcome per statement, and the
\* outcome of a statement that holds no <coq> block (the parser threw, or the
\* parsed reply has no coq element) is a FileSystemError CoqError carrying the
\* parse failure detail, produced without compiling anything.
C22_OneOutcomePerStatement ==
    pc = "outcomes" =>
        /\ Len(tasks) = Len(lemmaTexts)
        /\ \A i \in 1..Len(tasks) :
               (lemmaTexts[i] # "coq block" /\ tasks[i].step = "done") =>
                   /\ tasks[i].path = NoParsedPath
                   /\ tasks[i].outcome.tag = "Left"
                   /\ tasks[i].outcome.left.type = CoqErrorType("FileSystemError")
                   /\ tasks[i].outcome.left.stderr = ParseErrorDetail

\* the text holds `needle` at some index
holdsText(text, needle) ==
    \E i \in 1..(Len(text) - Len(needle) + 1) :
        SubSeq(text, i, i + Len(needle) - 1) = needle

\* C23: the CoqError of a failed coqc run has type SyntaxError when the
\* stderr holds "Syntax error:", else IncompleteProof when it holds "There
\* are pending proofs", else UnknownErrorType.
C23_ClassifiedByStderr ==
    \A i \in 1..Len(tasks) :
        (tasks[i].step = "done" /\ tasks[i].path # NoParsedPath
                                /\ tasks[i].outcome.tag = "Left") =>
            tasks[i].outcome.left.type =
                CoqErrorType(IF holdsText(tasks[i].outcome.left.stderr, SyntaxErrorMessage)
                             THEN "SyntaxError"
                             ELSE IF holdsText(tasks[i].outcome.left.stderr,
                                               PendingProofsMessage)
                             THEN "IncompleteProof"
                             ELSE "UnknownErrorType")

\* C24: insertAnnotations applied to its own output, with the same
\* annotations on the same points, returns that output: a block already at
\* the point is replaced, not added to.
C24_PatchIdempotent ==
    pc = "patched twice" => patchedTwice = patchedOnce

\* the orders in which n annotations can be supplied
Orders(n) == {f \in [1..n -> 1..n] : \A i, j \in 1..n : i # j => f[i] # f[j]}

\* C25: for annotations on distinct points, insertAnnotations returns the
\* same text for every order in which they are supplied.
C25_OrderInvariant ==
    pc = "patched" =>
        \A f \in Orders(Len(supplied)) :
            patch(patcher, SourceCode(source),
                  [i \in 1..Len(supplied) |-> supplied[f[i]]]) = patchedOnce

\* the positions of a list of annotations, in ascending order
targets(annotations) ==
    LET at == {annotations[i].point.startIndex : i \in 1..Len(annotations)}
    IN [r \in 1..Cardinality(at) |->
           CHOOSE x \in at : Cardinality({y \in at : y < x}) = r - 1]

\* `out` is `input` with text put in at the positions `at` (ascending) and
\* nowhere else: from the offsets inOff of input and outOff of out on, the
\* characters of input are those of out but for what stands at the positions
RECURSIVE keptAround(_, _, _, _, _)
keptAround(input, out, at, inOff, outOff) ==
    IF at = <<>>
    THEN SubSeq(out, outOff + 1, Len(out)) = SubSeq(input, inOff + 1, Len(input))
    ELSE /\ outOff + Head(at) - inOff <= Len(out)
         /\ SubSeq(out, outOff + 1, outOff + Head(at) - inOff)
                = SubSeq(input, inOff + 1, Head(at))
         /\ \E len \in 0..(Len(out) - outOff - Head(at) + inOff) :
                keptAround(input, out, Tail(at), Head(at),
                           outOff + Head(at) - inOff + len)

\* every character of `kept` stands in `text`, in the same order
RECURSIVE keptInOrder(_, _)
keptInOrder(kept, text) ==
    IF kept = <<>> THEN TRUE
    ELSE IF text = <<>> THEN FALSE
    ELSE IF Head(kept) = Head(text) THEN keptInOrder(Tail(kept), Tail(text))
    ELSE keptInOrder(kept, Tail(text))

\* C26: insertAnnotations keeps every character of its input that is not
\* part of a block it put in before, unchanged and in order, in both
\* versions and when applied to its own output; and the version of
\* lib/spec/insertion.ts changes the text at the annotations' positions only:
\* its output is its input with text put in at those positions, and applied
\* again at a position it replaces there no more than the block put in before.
C26_OnlyAtAnnotationPositions ==
    /\ pc \in {"patched", "patched twice"} =>
           keptInOrder(SourceCode(source), patchedOnce)
    /\ pc = "patched twice" => keptInOrder(SourceCode(source), patchedTwice)
    /\ patcher = "sorts and replaces" =>
           /\ pc \in {"patched", "patched twice"} =>
                  keptAround(SourceCode(source), patchedOnce, targets(supplied), 0, 0)
           /\ (pc = "patched twice" /\ Len(supplied) = 1) =>
                  keptAround(SourceCode(source), patchedTwice, targets(supplied), 0, 0)

C26_Witness ==
    /\ pc = "patched twice"
    /\ patcher = "sorts and replaces"
    /\ source = "two functions"
    /\ Len(supplied) = 1
    /\ supplied[1].point.startIndex = 11
    /\ patchedTwice = patchedOnce
    /\ Len(patchedOnce) = Len(SourceCode(source)) + 10

RECURSIVE insideBraces(_)
insideBraces(node) ==
    (IF node.type \in LoopTypes \cup {"function_definition"}
     THEN {node.children[i].startIndex + 1 :
              i \in {k \in 1..Len(node.children) :
                        node.children[k].type = "compound_statement"}}
     ELSE {})
    \cup UNION {insideBraces(node.children[i]) : i \in 1..Len(node.children)}

RECURSIVE constructStarts(_)
constructStarts(node) ==
    (IF node.type \in LoopTypes \cup {"function_definition"}
     THEN {node.startIndex} ELSE {})
    \cup UNION {constructStarts(node.children[i]) : i \in 1..Len(node.children)}

C29_PointsOfPatchedText ==
    /\ pc \in {"synth", "write"} =>
           /\ count(trace, "read") = 1
           /\ code = file
           /\ parsed = code
           /\ points = findAnnotationPoints(numPoints)
    /\ pc = "write" =>
           /\ annotatedCode = insertAnnotations(parsed, annotationCompletion.annotations)
           /\ \A i \in 1..Len(annotatedCode.patch) :
                  /\ annotatedCode.patch[i].point \in Range(points)
                  /\ annotatedCode.patch[i].content[1] = traversals

C29_Witness ==
    /\ pc = "write"
    /\ traversals >= 2
    /\ parsed.rev >= 1
    /\ parsed = file
    /\ annotatedCode.rev = parsed.rev + 1
    /\ Len(annotatedCode.patch) >= 2

\* every step `a` of the sequence comes before every step `b`
precedes(seq, a, b) ==
    \A i, j \in 1..Len(seq) : (seq[i] = a /\ seq[j] = b) => i < j

\* C30: in every traversal the steps come in the order read (locate), the
\* completions of all the points, patch, write, check: the patch is computed
\* once every point's completion has returned, and a check that follows a
\* completion follows the write of the patched text.
C30_StepsInOrder ==
    /\ precedes(trace, "read", "complete")
    /\ precedes(trace, "complete", "patch")
    /\ precedes(trace, "patch", "write")
    /\ "patch" \in Range(trace) =>
           /\ count(trace, "read") = 1
           /\ count(trace, "complete") = numPoints
           /\ count(trace, "patch") = 1
    /\ "write" \in Range(trace) => "patch" \in Range(trace)
    /\ \A i, k \in 1..Len(trace) :
           (i < k /\ trace[i] = "complete" /\ trace[k] = "check") =>
               \E j \in (i + 1)..(k - 1) : trace[j] = "write"
    /\ pc = "check" =>
           /\ file.rev >= 1
           /\ \A i \in 1..Len(file.patch) : file.patch[i].content[1] = traversals

C30_Witness ==
    /\ pc = "fold"
    /\ trace = <<"check", "read", "complete", "complete", "patch", "write", "check">>

\* the last message of a completion request
lastMessage(history) == history[Len(history)]

\* C31: in every traversal after the first, the pass follows a failed check
\* of that same traversal (the newest check of the run), and the request
\* made for each point ends with a user prompt that quotes the stdout and
\* stderr of that check, not those of a check of an earlier traversal.
C31_SeededWithLatestCheck ==
    (pc = "synth" /\ ~firstRun) =>
        /\ trace[1] = "check"
        /\ count(trace, "check") = 1
        /\ error.exitcode # 0
        /\ error.stderr.run = [traversal |-> traversals, phase |-> "recheck"]
        /\ Len(promises) = numPoints
        /\ \A i \in 1..Len(promises) :
               /\ lastMessage(promises[i].history).role = "user"
               /\ lastMessage(promises[i].history).point = points[i]
               /\ lastMessage(promises[i].history).about = error.stderr.run

C31_Witness ==
    /\ pc = "synth"
    /\ ~firstRun
    /\ traversals >= 3
    /\ Len(promises) >= 2
    /\ error.stderr.sideCondition
    /\ \A i \in 1..Len(promises) :
           lastMessage(promises[i].history).about
               = [traversal |-> traversals, phase |-> "recheck"]

\* C33: a run whose result is a Right (and a command that exits with 0) has
\* executed at least one check in its last traversal, the last step of the
\* run is a check, and that check resolved, which it does on exit 0 only.
C33_SuccessOnlyAfterPassingCheck ==
    (ended /\ result.tag = "Right") =>
        /\ traversals >= 1
        /\ count(trace, "check") >= 1
        /\ trace[Len(trace)] = "check"
        /\ outcome = Right
        /\ outcome \in VerifierOutcomes([traversal |-> traversals,
                                          phase |-> IF Len(trace) = 1 /\ traversals > 1
                                                    THEN "recheck" ELSE "check"])

C33_Witness ==
    /\ pc = "exited"
    /\ exitCode = 0
    /\ result.tag = "Right"
    /\ traversals >= 2
    /\ trace = <<"check", "read", "complete", "patch", "write", "check">>
    /\ error.exitcode # 0

\* C32: once a round of lemmas-loop has yielded a successfully checked
\* lemma, loop is not called again: no round starts, and none is under way
\* before its own outcomes are run, with a success already counted.
C32_StopsAtFirstSuccess ==
    (script = "lemmas-loop" /\ pc \in {"loop", "generateLemmas"}) => successes = 0

\* C35: when the first check of lemmas-loop passes (generatePlan gives none,
\* no plan is made), main returns true and the command exits with status 0.
C35_PassingCheckIsSuccess ==
    (script = "lemmas-loop" /\ plan = NoPlan /\ pc \in {"returned", "exited"}) =>
        /\ returned = "true"
        /\ pc = "exited" => lemmaExit = 0

C34_AllAnnotationsPresent ==
    pc = "patched completions" =>
        \A i \in 1..Len(supplied) : includes(patchedOnce, supplied[i].content)

\* the processes the client spawned that are running
running == {p \in 1..Len(spawned) : spawned[p] = "running"}

\* C37: an AnnotationCompletionClient never has more than one server
\* process of its own running, however its start() invocations interleave.
C37_OneServerPerClient ==
    clientClass = "AnnotationCompletionClient" => Cardinality(running) <= 1

\* C38: when a disconnect() of a McpClientWrapper has returned, and no other
\* invocation is under way, the client holds no child process and no
\* process it spawned is running.
C38_NothingLeftAfterDisconnect ==
    (clientClass = "McpClientWrapper" /\ returnedFrom.method = "disconnect"
        /\ calls = <<>>) =>
        /\ childProcess = NoProcess
        /\ running = {}

====
